---- MODULE Spec2Model ----
\* Padding rule engine of eslint-plugin-jest-formatting (src/rules/padding.ts):
\* statement classifier, rule-table lookup, blank-line check with its fix,
\* scope tracker and the visitor that drives them.
EXTENDS Integers, Sequences, FiniteSets, TLC

\* ---------------------------------------------------------------- bounds

\* Nodes (statements, blocks, switches, cases) delivered by one traversal.
MaxNodes == 5
\* Nesting depth of the constructs the tree-walker has open.
MaxDepth == 4
\* Comments between two statements in the layouts of the fix check.
MaxComments == 2
\* Largest line distance between two consecutive tokens/comments.
MaxGap == 2
\* Extra lines a block comment may span.
MaxHeight == 1
\* LabeledStatement wrappers around a statement.
MaxLabels == 1
\* Rules in the rule tables of the lookup check.
MaxRules == 2

\* Nodes of each of two files traversed side by side.
DuoNodes == 2

\* Depth of the open constructs of each of the two, the Program node included.
DuoDepth == 3

\* ------------------------------------------------------- enumerated types

\* const enum StatementType
StatementType ==
  {"Any", "AfterAllToken", "AfterEachToken", "BeforeAllToken", "BeforeEachToken",
   "DescribeToken", "ExpectToken", "FdescribeToken", "FitToken", "ItToken",
   "TestToken", "XdescribeToken", "XitToken", "XtestToken"}

\* const enum PaddingType
PaddingType == {"Any", "Always"}

\* The token name each named StatementType is registered with in statementTesters.
tokenName(type) ==
  CASE type = "AfterAllToken" -> "afterAll"
    [] type = "AfterEachToken" -> "afterEach"
    [] type = "BeforeAllToken" -> "beforeAll"
    [] type = "BeforeEachToken" -> "beforeEach"
    [] type = "DescribeToken" -> "describe"
    [] type = "ExpectToken" -> "expect"
    [] type = "FdescribeToken" -> "fdescribe"
    [] type = "FitToken" -> "fit"
    [] type = "ItToken" -> "it"
    [] type = "TestToken" -> "test"
    [] type = "XdescribeToken" -> "xdescribe"
    [] type = "XitToken" -> "xit"
    [] type = "XtestToken" -> "xtest"
    [] OTHER -> ""

\* type StatementTypes = StatementType | StatementType[]
One(type) == [isArray |-> FALSE, type |-> type, types |-> <<>>]
Many(types) == [isArray |-> TRUE, type |-> "Any", types |-> types]

\* interface Config
Rule(paddingType, prevType, nextType) ==
  [paddingType |-> paddingType, prevStatementType |-> prevType,
   nextStatementType |-> nextType]

\* ------------------------------------------------------------------ nodes

\* An estree statement node as the rule sees it: its own type is
\* LabeledStatement when labels > 0 (label token lbl) and `type` otherwise;
\* `tok` is the first token of the innermost statement, `parent` the type of
\* node.parent, `id` its identity (0 is null).
Node(id, type, labels, lbl, tok, parent) ==
  [id |-> id, type |-> type, labels |-> labels, lbl |-> lbl, tok |-> tok,
   parent |-> parent]

Token(type, value) == [type |-> type, value |-> value]

null == Node(0, "null", 0, "", Token("null", ""), "null")

\* node.type
typeOf(node) == IF node.labels > 0 THEN "LabeledStatement" ELSE node.type

\* LabeledStatement.body
bodyOf(node) == [node EXCEPT !.labels = @ - 1]

\* sourceCode.getFirstToken(node)
getFirstToken(node) ==
  IF node.labels > 0 THEN Token("Identifier", node.lbl) ELSE node.tok

\* ------------------------------------------------------------- classifier

\* createTokenTester(tokenName)(node, sourceCode)
createTokenTester(name, node) ==
  LET token == getFirstToken(node)
  IN  /\ typeOf(node) = "ExpressionStatement"
      /\ token.type = "Identifier"
      /\ token.value = name

\* statementTesters[statementType](node, sourceCode)
statementTesters(statementType, node) ==
  IF statementType = "Any" THEN TRUE
  ELSE createTokenTester(tokenName(statementType), node)

\* The while loop of nodeMatchesType: dig into LabeledStatement bodies.
RECURSIVE innerStatement(_)
innerStatement(node) ==
  IF typeOf(node) = "LabeledStatement" THEN innerStatement(bodyOf(node)) ELSE node

\* A slip that forgets the unwrapping of labels.
nodeMatchesTypeNoUnwrap(node, statementType) ==
  IF statementType.isArray
  THEN \E i \in 1..Len(statementType.types) :
         statementTesters(statementType.types[i], node)
  ELSE statementTesters(statementType.type, node)

\* nodeMatchesType(node, statementType, paddingContext); the recursion on an
\* array unwraps an already unwrapped node and ends in statementTesters.
nodeMatchesType(node, statementType) ==
  LET innerStatementNode == innerStatement(node)
  IN  IF statementType.isArray
      THEN \E i \in 1..Len(statementType.types) :
             statementTesters(statementType.types[i],
                              innerStatement(innerStatementNode))
      ELSE statementTesters(statementType.type, innerStatementNode)

\* ------------------------------------------------- source text between nodes

\* The source between prevNode and nextNode: the comments after prevNode's
\* actual last token, in order, and then nextNode. Token 0 is that last token
\* (its end line is line 0), tokens 1..Len(items) are the comments and token
\* Len(items) + 1 is nextNode. An item's gap is the number of line breaks
\* between the end of the token before it and its start; its height is the
\* number of line breaks inside it. tail is nextNode's gap.
Item(kind, gap, height) == [kind |-> kind, gap |-> gap, height |-> height]

Layout(items, tail) == [items |-> items, tail |-> tail]

nextIndex(lay) == Len(lay.items) + 1

gapOf(lay, i) == IF i = nextIndex(lay) THEN lay.tail ELSE lay.items[i].gap

RECURSIVE endLine(_, _)
\* token.loc.end.line
endLine(lay, i) ==
  IF i = 0 THEN 0
  ELSE IF i = nextIndex(lay) THEN endLine(lay, i - 1) + lay.tail
  ELSE endLine(lay, i - 1) + lay.items[i].gap + lay.items[i].height

\* token.loc.start.line
startLine(lay, i) == IF i = 0 THEN 0 ELSE endLine(lay, i - 1) + gapOf(lay, i)

\* A line comment runs to the end of its line: whatever follows it starts on
\* a later line, and it spans no line break itself.
WellFormed(lay) ==
  \A i \in 1..Len(lay.items) :
    lay.items[i].kind = "Line" =>
      /\ lay.items[i].height = 0
      /\ gapOf(lay, i + 1) >= 1

SeqsUpTo(S, n) == UNION {[1..k -> S] : k \in 0..n}

Layouts(comments, gap, height) ==
  {lay \in [items : SeqsUpTo([kind : {"Line", "Block"}, gap : 0..gap,
                              height : 0..height], comments),
            tail : 0..gap] : WellFormed(lay)}

\* astUtils.getActualLastToken(sourceCode, prevNode): by construction of a
\* layout, token 0.
getActualLastToken(lay, prevNode) == nextIndex(lay) - nextIndex(lay)

\* astUtils.areTokensOnSameLine(left, right)
areTokensOnSameLine(lay, left, right) == endLine(lay, left) = startLine(lay, right)

\* astUtils.getPaddingLineSequences(prevNode, nextNode, sourceCode): the pairs
\* of consecutive tokens/comments from prevNode's actual last token to
\* nextNode that have at least one blank line between them.
getPaddingLineSequences(lay, prevNode, nextNode) ==
  LET first == getActualLastToken(lay, prevNode)
      idx == [i \in 1..(nextIndex(lay) - first) |-> first + i]
      padded(i) == startLine(lay, i) - endLine(lay, i - 1) >= 2
  IN  [k \in 1..Len(SelectSeq(idx, padded)) |->
         <<SelectSeq(idx, padded)[k] - 1, SelectSeq(idx, padded)[k]>>]

\* ------------------------------------------------------------------- fix

RECURSIVE getFirstTokenBetween(_, _, _)
\* sourceCode.getFirstTokenBetween(prevToken, nextNode, {includeComments,
\* filter}) || nextNode, together with the prevToken the filter leaves behind:
\* the filter is called on the comments in order, advances prevToken over
\* each one on prevToken's line and accepts the first one that is not.
getFirstTokenBetween(lay, prevToken, i) ==
  IF i >= nextIndex(lay)
  THEN [prevToken |-> prevToken, nextToken |-> nextIndex(lay)]
  ELSE IF areTokensOnSameLine(lay, prevToken, i)
       THEN getFirstTokenBetween(lay, i, i + 1)
       ELSE [prevToken |-> prevToken, nextToken |-> i]

\* A slip that inserts after prevNode's last token, before its trailing comments.
fixBeforeComments(lay, prevNode, nextNode) ==
  LET prevToken == getActualLastToken(lay, prevNode)
      nextToken == IF Len(lay.items) > 0 THEN 1 ELSE nextIndex(lay)
  IN  [after |-> prevToken,
       text |-> IF areTokensOnSameLine(lay, prevToken, nextToken)
                THEN "\n\n" ELSE "\n"]

\* A slip that always inserts one line break.
fixOneBreak(lay, prevNode, nextNode) ==
  LET first == getActualLastToken(lay, prevNode)
      found == getFirstTokenBetween(lay, first, first + 1)
  IN  [after |-> found.prevToken, text |-> "\n"]

\* The fix function of the report: fixer.insertTextAfter(prevToken, insertText)
fix(lay, prevNode, nextNode) ==
  LET first == getActualLastToken(lay, prevNode)
      found == getFirstTokenBetween(lay, first, first + 1)
      insertText == IF areTokensOnSameLine(lay, found.prevToken, found.nextToken)
                    THEN "\n\n" ELSE "\n"
  IN  [after |-> found.prevToken, text |-> insertText]

\* Line breaks in an inserted text.
lineBreaks(text) == IF text = "\n\n" THEN 2 ELSE IF text = "\n" THEN 1 ELSE 0

\* Applying an insertTextAfter edit to the source: the text lands right after
\* the token, so the line breaks it holds are added before whatever follows it.
insertTextAfter(lay, edit) ==
  IF edit.after + 1 = nextIndex(lay)
  THEN [lay EXCEPT !.tail = @ + lineBreaks(edit.text)]
  ELSE [lay EXCEPT !.items[edit.after + 1].gap = @ + lineBreaks(edit.text)]

\* ----------------------------------------------------------- padding testers

Message == "Expected blank line before this statement."

Report(node, prev, message, edit) ==
  [node |-> node, prev |-> prev, message |-> message, fix |-> edit]

\* A slip that anchors the report at the previous statement.
paddingAlwaysTesterAtPrev(lay, prevNode, nextNode) ==
  IF Len(getPaddingLineSequences(lay, prevNode, nextNode)) > 0
  THEN <<>>
  ELSE <<Report(prevNode.id, prevNode.id, Message, fix(lay, prevNode, nextNode))>>

\* paddingAlwaysTester(prevNode, nextNode, paddingContext): the reports it
\* hands to ruleContext.report (none or one).
paddingAlwaysTester(lay, prevNode, nextNode) ==
  IF Len(getPaddingLineSequences(lay, prevNode, nextNode)) > 0
  THEN <<>>
  ELSE <<Report(nextNode.id, prevNode.id, Message, fix(lay, prevNode, nextNode))>>

\* paddingTesters[type](prevNode, nextNode, paddingContext)
paddingTesters(type, lay, prevNode, nextNode) ==
  IF type = "Always" THEN paddingAlwaysTester(lay, prevNode, nextNode) ELSE <<>>

\* ------------------------------------------------------------ rule lookup

RECURSIVE lastMatch(_, _, _, _)
\* The for loop of testPadding from index i down (configs is 1-based here):
\* the padding type of the first rule met that matches both nodes, and
\* PaddingType.Any when the loop runs out.
lastMatch(configs, i, prevNode, nextNode) ==
  IF i < 1 THEN "Any"
  ELSE IF /\ nodeMatchesType(prevNode, configs[i].prevStatementType)
          /\ nodeMatchesType(nextNode, configs[i].nextStatementType)
       THEN configs[i].paddingType
       ELSE lastMatch(configs, i - 1, prevNode, nextNode)

RECURSIVE firstMatch(_, _, _, _)
\* A slip that scans the table from its first entry.
firstMatch(configs, i, prevNode, nextNode) ==
  IF i > Len(configs) THEN "Any"
  ELSE IF /\ nodeMatchesType(prevNode, configs[i].prevStatementType)
          /\ nodeMatchesType(nextNode, configs[i].nextStatementType)
       THEN configs[i].paddingType
       ELSE firstMatch(configs, i + 1, prevNode, nextNode)

paddingTypeFirstMatch(configs, prevNode, nextNode) ==
  firstMatch(configs, 1, prevNode, nextNode)

RECURSIVE lastMatchDefaultAlways(_, _, _, _)
\* A slip that falls back to PaddingType.Always when no rule matches.
lastMatchDefaultAlways(configs, i, prevNode, nextNode) ==
  IF i < 1 THEN "Always"
  ELSE IF /\ nodeMatchesType(prevNode, configs[i].prevStatementType)
          /\ nodeMatchesType(nextNode, configs[i].nextStatementType)
       THEN configs[i].paddingType
       ELSE lastMatchDefaultAlways(configs, i - 1, prevNode, nextNode)

paddingTypeDefaultAlways(configs, prevNode, nextNode) ==
  lastMatchDefaultAlways(configs, Len(configs), prevNode, nextNode)

\* The padding type testPadding hands to testType.
paddingTypeFor(configs, prevNode, nextNode) ==
  lastMatch(configs, Len(configs), prevNode, nextNode)

\* testPadding(prevNode, nextNode, paddingContext): the reports made.
testPadding(configs, lay, prevNode, nextNode) ==
  paddingTesters(paddingTypeFor(configs, prevNode, nextNode), lay, prevNode, nextNode)

\* ------------------------------------------------------------ scope tracker

\* interface Scope; the chain of upper links is a sequence whose last element
\* is the current scope, and the empty sequence is `scope = null`.
Scope(prevNode) == [prevNode |-> prevNode]

\* get prevNode()
getPrevNode(scope) == scope[Len(scope)].prevNode

\* set prevNode(node)
setPrevNode(scope, node) == [scope EXCEPT ![Len(scope)].prevNode = node]

\* A slip that starts the new scope with the upper scope's prevNode.
enterInheriting(scope) ==
  Append(scope, Scope(IF scope = <<>> THEN null ELSE getPrevNode(scope)))

\* enter()
enter(scope) == Append(scope, Scope(null))

\* A slip that hands the popped scope's prevNode to the upper scope.
exitLeaking(scope) ==
  IF Len(scope) < 2 THEN <<>>
  ELSE setPrevNode(SubSeq(scope, 1, Len(scope) - 1), getPrevNode(scope))

\* exit()
exit(scope) == SubSeq(scope, 1, Len(scope) - 1)

\* -------------------------------------------------------------- the visitor

\* astUtils.isValidParent(node.parent.type)
isValidParent(parentType) ==
  parentType \in {"Program", "BlockStatement", "SwitchCase", "SwitchStatement"}

\* What a handler leaves behind: the scope chain, the reports made so far,
\* whether it threw (a property read on `scope = null`) and the identity of the
\* prevNode it handed to testPadding (0 when it made no such call).
Outcome(scope, reports, fault, tested) ==
  [scope |-> scope, reports |-> reports, fault |-> fault, tested |-> tested]

\* A slip that records a statement before looking at its parent.
verifyNodeOverwriting(scope, reports, configs, lay, node) ==
  IF scope = <<>> THEN Outcome(scope, reports, TRUE, 0)
  ELSE IF ~isValidParent(node.parent)
       THEN Outcome(setPrevNode(scope, node), reports, FALSE, 0)
       ELSE Outcome(setPrevNode(scope, node),
                    IF getPrevNode(scope) # null
                    THEN reports \o testPadding(configs, lay, getPrevNode(scope), node)
                    ELSE reports,
                    FALSE, getPrevNode(scope).id)

\* A slip that forgets to record the statement as the scope's prevNode.
verifyNodeNotRecording(scope, reports, configs, lay, node) ==
  IF ~isValidParent(node.parent) THEN Outcome(scope, reports, FALSE, 0)
  ELSE IF scope = <<>> THEN Outcome(scope, reports, TRUE, 0)
  ELSE Outcome(scope,
               IF getPrevNode(scope) # null
               THEN reports \o testPadding(configs, lay, getPrevNode(scope), node)
               ELSE reports,
               FALSE, getPrevNode(scope).id)

\* verifyNode(node, paddingContext)
verifyNode(scope, reports, configs, lay, node) ==
  IF ~isValidParent(node.parent) THEN Outcome(scope, reports, FALSE, 0)
  ELSE IF scope = <<>> THEN Outcome(scope, reports, TRUE, 0)
  ELSE Outcome(setPrevNode(scope, node),
               IF getPrevNode(scope) # null
               THEN reports \o testPadding(configs, lay, getPrevNode(scope), node)
               ELSE reports,
               FALSE, getPrevNode(scope).id)

\* A slip that leaves the Program handler out, so that the walk starts on
\* `scope = null`.
onProgramNoEnter(scope) == Outcome(scope, <<>>, FALSE, 0)

\* Program: scopeInfo.enter
onProgram(scope) == Outcome(enter(scope), <<>>, FALSE, 0)

\* 'Program:exit': scopeInfo.enter
onProgramExit(scope) == enter(scope)

\* BlockStatement / SwitchStatement: the node is a statement, so the
\* ':statement' handler runs on it, and then scopeInfo.enter.
onContainer(scope, reports, configs, lay, node) ==
  LET v == verifyNode(scope, reports, configs, lay, node)
  IN  IF v.fault THEN v ELSE Outcome(enter(v.scope), v.reports, FALSE, v.tested)

\* 'BlockStatement:exit' / 'SwitchStatement:exit' / 'SwitchCase:exit': scopeInfo.exit
onExit(scope) ==
  IF scope = <<>> THEN Outcome(scope, <<>>, TRUE, 0)
  ELSE Outcome(exit(scope), <<>>, FALSE, 0)

\* A slip that leaves out the scope of the case body.
onSwitchCaseNoEnter(scope, reports, configs, lay, node) ==
  verifyNode(scope, reports, configs, lay, node)

\* SwitchCase: verifyNode(node, paddingContext); scopeInfo.enter()
onSwitchCase(scope, reports, configs, lay, node) ==
  LET v == verifyNode(scope, reports, configs, lay, node)
  IN  IF v.fault THEN v ELSE Outcome(enter(v.scope), v.reports, FALSE, v.tested)

\* ------------------------------------------------------------------ state

VARIABLES
  configs,   \* createRule(configs): the rule table of this rule
  scope,     \* createScopeInfo: the closure's `scope` chain
  reports,   \* what ruleContext.report has been handed, in order
  fault,     \* a handler threw
  phase,     \* "init" before Program, "run" inside it, "done" after Program:exit
  walk,      \* the tree-walker's open constructs, innermost last
  nextId,    \* identity of the next node the walker delivers
  due,       \* the pairs of the tree that owe a report, in document order
  last,      \* the walker's record of the latest statement it delivered
  pc,        \* single padding check: "idle", "call", "returned", "fixed", "rechecked"
  pair,      \* single padding check: prevNode, nextNode and the source between them
  applied,   \* single padding check: the padding type testPadding applied
  out,       \* single padding check: the reports of the check
  text,      \* single padding check: the source after the fix was applied
  again,     \* single padding check: the reports of the check on the fixed source
  duo        \* two invocations of create(): their trackers, reports and walkers

vars == <<configs, scope, reports, fault, phase, walk, nextId, due, last,
          pc, pair, applied, out, text, again, duo>>

ruleVars == <<configs, scope, reports, fault, phase, walk, nextId, due, last>>

pairVars == <<pc, pair, applied, out, text, again>>

\* ------------------------------------------------- the tree the walker walks

\* What the tree says about a pair, stated on the tree and the table alone.

\* node belongs to the named category: the statement inside its labels (whose
\* type and first token a node records) is an expression statement that
\* starts with the category's identifier.
Belongs(node, type) ==
  \/ type = "Any"
  \/ /\ node.type = "ExpressionStatement"
     /\ node.tok.type = "Identifier"
     /\ node.tok.value = tokenName(type)

\* node belongs to a category or to one of an array of categories.
BelongsTo(node, statementType) ==
  IF statementType.isArray
  THEN {i \in 1..Len(statementType.types) : Belongs(node, statementType.types[i])} # {}
  ELSE Belongs(node, statementType.type)

\* The rules of the table both nodes match.
Matching(table, prev, next) ==
  {i \in 1..Len(table) : /\ BelongsTo(prev, table[i].prevStatementType)
                         /\ BelongsTo(next, table[i].nextStatementType)}

Highest(S) == CHOOSE i \in S : \A j \in S : j <= i

\* The policy of the table for a pair: that of its last matching rule.
Resolved(table, prev, next) ==
  IF Matching(table, prev, next) = {} THEN "Any"
  ELSE table[Highest(Matching(table, prev, next))].paddingType

\* A blank line lies somewhere between the two statements.
Blank(lay) == \E i \in 1..nextIndex(lay) : gapOf(lay, i) >= 2

\* An open construct of the walk: its kind, its own node, the last statement
\* delivered directly inside it, the statement that preceded its body in the
\* enclosing construct, the first identity inside it, and, since the last
\* statement delivered directly inside it: the latest node nested in that
\* statement (0: none) and the construct that was left last (its saved
\* statement and the identities inside it).
NotLeft == [on |-> FALSE, saved |-> 0, lo |-> 0, hi |-> 0]

Frame(kind, owner, saved, lo) ==
  [kind |-> kind, owner |-> owner, last |-> null, saved |-> saved, lo |-> lo,
   skipped |-> 0, left |-> NotLeft]

top == walk[Len(walk)]

Containers == {"BlockStatement", "SwitchStatement", "SwitchCase"}

\* The latest delivery of a statement: the node, whether it lies directly in
\* the innermost construct (a statement list) or is nested in that construct's
\* last statement, scopeInfo.prevNode before and after verifyNode, the
\* prevNode handed to testPadding (0: none), and what the tree says of it:
\* the construct's kind, the statement before it in the construct (0: it is
\* the first), whether a blank line precedes it, whether the table resolves
\* to Always for it and whatever precedes it.
Visit(node, direct, before, after, checked, frame, blank, always) ==
  [node |-> node.id, direct |-> direct, before |-> before, after |-> after,
   checked |-> checked, kind |-> frame.kind, sib |-> frame.last.id,
   blank |-> blank, always |-> always, skipped |-> frame.skipped,
   left |-> frame.left]

NoVisit ==
  [node |-> 0, direct |-> FALSE, before |-> 0, after |-> 0, checked |-> 0,
   kind |-> "none", sib |-> 0, blank |-> FALSE, always |-> FALSE, skipped |-> 0,
   left |-> NotLeft]

prevId(sc) == IF sc = <<>> THEN 0 ELSE getPrevNode(sc).id

\* The shapes of the statements of the traversal.
Shapes ==
  {[type |-> "ExpressionStatement", labels |-> 0, lbl |-> "",
    tok |-> Token("Identifier", "describe")],
   [type |-> "ExpressionStatement", labels |-> 0, lbl |-> "",
    tok |-> Token("Identifier", "foo")],
   [type |-> "IfStatement", labels |-> 0, lbl |-> "", tok |-> Token("Keyword", "if")],
   [type |-> "ExpressionStatement", labels |-> 1, lbl |-> "foo",
    tok |-> Token("Identifier", "describe")]}

\* The layouts of the traversal: next statement on the same line, on the next
\* line, after one blank line.
SpecLayouts == {Layout(<<>>, 0), Layout(<<>>, 1), Layout(<<>>, 2)}

DescribeTokens == Many(<<"DescribeToken", "FdescribeToken", "XdescribeToken">>)

\* paddingConfigs.describe
describeConfigs ==
  <<Rule("Always", One("Any"), DescribeTokens), Rule("Always", DescribeTokens, One("Any"))>>


Around(types) ==
  <<Rule("Always", One("Any"), types), Rule("Always", types, One("Any"))>>

\* paddingConfigs.afterAll
afterAllConfigs == Around(One("AfterAllToken"))

\* paddingConfigs.afterEach
afterEachConfigs == Around(One("AfterEachToken"))

\* paddingConfigs.beforeAll
beforeAllConfigs == Around(One("BeforeAllToken"))

\* paddingConfigs.beforeEach
beforeEachConfigs == Around(One("BeforeEachToken"))

\* A slip that declares the expect -> expect exception before the rules it
\* is meant to override.
expectConfigsExceptionFirst ==
  <<Rule("Any", One("ExpectToken"), One("ExpectToken")),
    Rule("Always", One("Any"), One("ExpectToken")),
    Rule("Always", One("ExpectToken"), One("Any"))>>

\* paddingConfigs.expect
expectConfigs ==
  <<Rule("Always", One("Any"), One("ExpectToken")),
    Rule("Always", One("ExpectToken"), One("Any")),
    Rule("Any", One("ExpectToken"), One("ExpectToken"))>>

TestTokens == Many(<<"TestToken", "ItToken", "FitToken", "XitToken", "XtestToken">>)

\* paddingConfigs.test
testConfigs == Around(TestTokens)

\* paddingConfigs, in the order of its keys
paddingConfigs ==
  <<afterAllConfigs, afterEachConfigs, beforeAllConfigs, beforeEachConfigs,
    describeConfigs, expectConfigs, testConfigs>>

RECURSIVE concat(_)
\* [].concat(...tables)
concat(tables) ==
  IF tables = <<>> THEN <<>> ELSE Head(tables) \o concat(Tail(tables))

\* A slip that leaves the last table out of the concatenation.
allConfigsButLast == concat(SubSeq(paddingConfigs, 1, Len(paddingConfigs) - 1))

\* The table of 'padding-around-all':
\* [].concat(...Object.keys(paddingConfigs).map(k => paddingConfigs[k]))
allConfigs == concat(paddingConfigs)

\* The rule tables of the traversal.
SpecTables ==
  {describeConfigs,
   <<Rule("Always", One("Any"), One("Any"))>>,
   <<Rule("Always", One("Any"), One("DescribeToken")),
     Rule("Any", One("Any"), One("DescribeToken"))>>}

\* The walker's bookkeeping of a delivery. v is what verifyNode left behind
\* for the node and o what the whole handler did; direct says the node lies
\* directly inside the innermost construct (otherwise it is nested in that
\* construct's last statement).
Deliver(node, direct, lay, v, o) ==
  LET t == top
      pred == IF t.last # null THEN t.last ELSE t.owner
      owes == /\ direct
              /\ t.last # null
              /\ Resolved(configs, t.last, node) = "Always"
              /\ ~Blank(lay)
  IN  /\ scope' = o.scope
      /\ reports' = o.reports
      /\ fault' = o.fault
      /\ nextId' = nextId + 1
      /\ due' = IF owes THEN Append(due, <<node.id, t.last.id, Message>>) ELSE due
      /\ last' = Visit(node, direct, prevId(scope), prevId(v.scope), v.tested, t,
                       Blank(lay),
                       direct /\ pred # null /\ Resolved(configs, pred, node) = "Always")

\* The innermost construct after a node was delivered directly inside it.
Seen(node) == [top EXCEPT !.last = node, !.skipped = 0, !.left = NotLeft]

\* The innermost construct after a node nested in its last statement was delivered.
Skipped(node) == [top EXCEPT !.skipped = node.id]

Replace(stack, frame) == [stack EXCEPT ![Len(stack)] = frame]

\* The type of the parent of a node nested in statement `stmt` (a body of an
\* if or of a label, the body of a function in an expression).
NestParent(stmt) ==
  IF typeOf(stmt) = "ExpressionStatement" THEN "ArrowFunctionExpression" ELSE typeOf(stmt)

\* ---------------------------------------------------------------- actions

\* The walker enters the Program node.
Program ==
  /\ phase = "init" /\ pc = "idle"
  /\ LET o == onProgram(scope)
     IN  /\ scope' = o.scope
         /\ fault' = o.fault
  /\ walk' = <<Frame("Program", null, 0, nextId)>>
  /\ phase' = "run"
  /\ UNCHANGED <<configs, reports, nextId, due, last, pairVars, duo>>

\* The walker delivers a statement that opens no scope (':statement').
Statement ==
  /\ phase = "run" /\ ~fault /\ nextId <= MaxNodes
  /\ \E shape \in Shapes, direct \in BOOLEAN, lay \in SpecLayouts :
       /\ IF direct
          THEN top.kind \in {"Program", "BlockStatement", "SwitchCase"}
          ELSE top.last # null /\ typeOf(top.last) \in {"IfStatement", "LabeledStatement"}
       /\ (top.last = null /\ top.kind # "SwitchCase") => lay = Layout(<<>>, 1)
       /\ LET node == Node(nextId, shape.type, shape.labels, shape.lbl, shape.tok,
                           IF direct THEN top.kind ELSE NestParent(top.last))
              o == verifyNode(scope, reports, configs, lay, node)
          IN  /\ Deliver(node, direct, lay, o, o)
              /\ walk' = Replace(walk, IF direct THEN Seen(node) ELSE Skipped(node))
  /\ UNCHANGED <<configs, phase, pairVars, duo>>

\* The walker enters a block or a switch statement (':statement', then
\* BlockStatement / SwitchStatement).
EnterContainer ==
  /\ phase = "run" /\ ~fault /\ nextId <= MaxNodes /\ Len(walk) < MaxDepth
  /\ \E kind \in {"BlockStatement", "SwitchStatement"}, direct \in BOOLEAN,
        lay \in SpecLayouts :
       /\ IF direct
          THEN top.kind \in {"Program", "BlockStatement", "SwitchCase"}
          ELSE /\ top.last # null
               /\ typeOf(top.last) \notin Containers
               /\ kind = "SwitchStatement" => typeOf(top.last) # "ExpressionStatement"
       /\ top.last = null => lay = Layout(<<>>, 1)
       /\ LET node == Node(nextId, kind, 0, "",
                           IF kind = "BlockStatement" THEN Token("Punctuator", "{")
                           ELSE Token("Keyword", "switch"),
                           IF direct THEN top.kind ELSE NestParent(top.last))
              v == verifyNode(scope, reports, configs, lay, node)
              o == onContainer(scope, reports, configs, lay, node)
          IN  /\ Deliver(node, direct, lay, v, o)
              /\ walk' = Append(Replace(walk, IF direct THEN Seen(node) ELSE Skipped(node)),
                                Frame(kind, node,
                                      IF direct THEN node.id ELSE top.last.id,
                                      nextId + 1))
  /\ UNCHANGED <<configs, phase, pairVars, duo>>

\* The walker enters a case of a switch statement (SwitchCase).
EnterSwitchCase ==
  /\ phase = "run" /\ ~fault /\ nextId <= MaxNodes /\ Len(walk) < MaxDepth
  /\ top.kind = "SwitchStatement"
  /\ \E lay \in SpecLayouts :
       /\ top.last = null => lay = Layout(<<>>, 1)
       /\ LET node == Node(nextId, "SwitchCase", 0, "", Token("Keyword", "case"),
                           "SwitchStatement")
              v == verifyNode(scope, reports, configs, lay, node)
              o == onSwitchCase(scope, reports, configs, lay, node)
          IN  /\ Deliver(node, TRUE, lay, v, o)
              /\ walk' = Append(Replace(walk, Seen(node)),
                                Frame("SwitchCase", node, node.id, nextId + 1))
  /\ UNCHANGED <<configs, phase, pairVars, duo>>

\* The walker leaves a block, a switch statement or a case
\* ('BlockStatement:exit', 'SwitchStatement:exit', 'SwitchCase:exit').
ExitContainer ==
  /\ phase = "run" /\ ~fault
  /\ Len(walk) > 1
  /\ top.kind \in Containers
  /\ LET o == onExit(scope)
         outer == SubSeq(walk, 1, Len(walk) - 1)
     IN  /\ scope' = o.scope
         /\ fault' = o.fault
         /\ walk' = Replace(outer,
                            [outer[Len(outer)] EXCEPT
                               !.left = [on |-> TRUE, saved |-> top.saved,
                                         lo |-> top.lo, hi |-> nextId - 1]])
  /\ UNCHANGED <<configs, reports, phase, nextId, due, last, pairVars, duo>>

\* The walker leaves the Program node ('Program:exit').
ProgramExit ==
  /\ phase = "run" /\ ~fault
  /\ Len(walk) = 1
  /\ scope' = onProgramExit(scope)
  /\ walk' = <<>>
  /\ phase' = "done"
  /\ UNCHANGED <<configs, reports, fault, nextId, due, last, pairVars, duo>>

\* ------------------------------------------------- a single padding check

\* The statement types of the rules of the lookup check: the wildcard and an
\* array on the previous side, the wildcard and a single type on the next side.
PairTypes == {One("Any"), Many(<<"DescribeToken", "ExpectToken">>)}

\* The rule tables of the lookup check: every table of up to MaxRules rules.
PairTables ==
  SeqsUpTo([paddingType : PaddingType, prevStatementType : PairTypes,
            nextStatementType : {One("Any"), One("DescribeToken")}], MaxRules)

\* The statements of the lookup check: expression statements that start with
\* an identifier or with a parenthesis, an if statement, and each of them
\* under up to MaxLabels labels.
PairShapes ==
  {sh \in [type : {"ExpressionStatement", "IfStatement"}, labels : 0..MaxLabels,
           lbl : {"", "describe"},
           tok : {Token("Identifier", "describe"), Token("Identifier", "expect"),
                  Token("Identifier", "foo"), Token("Punctuator", "("),
                  Token("Keyword", "if")}] :
     /\ (sh.lbl = "") <=> (sh.labels = 0)
     /\ (sh.type = "IfStatement") <=> (sh.tok.type = "Keyword")}

\* The identifiers the statement testers look for, and one they do not.
Identifiers == {tokenName(t) : t \in StatementType \ {"Any"}} \cup {"foo"}

\* The statements of the checks of the shipped tables: an expression
\* statement that starts with each of the identifiers and an if statement,
\* each of them under up to MaxLabels labels.
JestShapes ==
  {sh \in [type : {"ExpressionStatement", "IfStatement"}, labels : 0..MaxLabels,
           lbl : {"", "describe"},
           tok : {Token("Identifier", v) : v \in Identifiers}
                   \cup {Token("Keyword", "if")}] :
     /\ (sh.lbl = "") <=> (sh.labels = 0)
     /\ (sh.type = "IfStatement") <=> (sh.tok.type = "Keyword")}

AsNode(id, sh) == Node(id, sh.type, sh.labels, sh.lbl, sh.tok, "Program")

Pair(prev, next, lay) == [prev |-> prev, next |-> next, lay |-> lay]

NoPair == Pair(null, null, Layout(<<>>, 0))

\* testPadding(prevNode, nextNode, paddingContext) is called on the pair.
PairCheck ==
  /\ pc = "call"
  /\ applied' = paddingTypeFor(configs, pair.prev, pair.next)
  /\ out' = testPadding(configs, pair.lay, pair.prev, pair.next)
  /\ pc' = "returned"
  /\ UNCHANGED <<ruleVars, duo, pair, text, again>>

\* The fix of the report is applied to the source.
PairFix ==
  /\ pc = "returned"
  /\ out # <<>>
  /\ text' = insertTextAfter(pair.lay, out[1].fix)
  /\ pc' = "fixed"
  /\ UNCHANGED <<ruleVars, duo, pair, applied, out, again>>

\* testPadding is called on the pair again, on the fixed source.
PairRecheck ==
  /\ pc = "fixed"
  /\ again' = testPadding(configs, text, pair.prev, pair.next)
  /\ pc' = "rechecked"
  /\ UNCHANGED <<ruleVars, duo, pair, applied, out, text>>

\* ------------------------------------------------ two invocations of create()

\* The two calls of create(), one per file.
Invocations == 1..2

\* A slip that keeps one tracker for the whole rule: every call after the
\* first hands out the tracker that is already there.
createScopeInfoShared(cells) == IF cells = <<>> THEN 1 ELSE Len(cells)

\* createScopeInfo(): the returned object closes over a `scope` variable of
\* its own; cells is the store of these variables and the result the place of
\* the new one.
createScopeInfo(cells) == Len(cells) + 1

\* The walker of one file: "new" before create(), "init" before Program,
\* "run" inside it, "done" after 'Program:exit'; the kinds of its open
\* constructs, innermost last; the number of nodes it has delivered.
DuoWalk(ph, open, n) == [phase |-> ph, open |-> open, n |-> n]

\* The same file traversed alone: the scope chain and the reports of a
\* traversal that has a tracker and a report list to itself.
Alone(sc, rep) == [scope |-> sc, reports |-> rep]

NoDuo ==
  [tracker |-> <<0, 0>>, cells |-> <<>>, sink |-> << <<>>, <<>> >>,
   fault |-> <<FALSE, FALSE>>,
   walk |-> <<DuoWalk("new", <<>>, 0), DuoWalk("new", <<>>, 0)>>,
   alone |-> <<Alone(<<>>, <<>>), Alone(<<>>, <<>>)>>]

\* The scope chain behind the scopeInfo of invocation i.
scopeOf(i) == duo.cells[duo.tracker[i]]

\* The statements of the two files: a describe call and an expect call.
DuoShapes ==
  {[type |-> "ExpressionStatement", labels |-> 0, lbl |-> "",
    tok |-> Token("Identifier", "describe")],
   [type |-> "ExpressionStatement", labels |-> 0, lbl |-> "",
    tok |-> Token("Identifier", "expect")]}

\* The layouts of the two files: next statement on the next line, or after one
\* blank line.
DuoLayouts == {Layout(<<>>, 1), Layout(<<>>, 2)}

\* The node the walker of invocation i delivers next; the nodes of the two
\* files are different objects.
DuoNode(i, type, tok) ==
  LET w == duo.walk[i]
  IN  Node((i - 1) * DuoNodes + w.n + 1, type, 0, "", tok, w.open[Len(w.open)])

\* A handler of invocation i has run: o is what it left behind on the
\* invocation's own tracker and report list, a what it leaves behind in the
\* traversal of the file alone.
DuoDone(i, o, a, w) ==
  duo' = [duo EXCEPT !.cells[duo.tracker[i]] = o.scope,
                     !.sink[i] = o.reports,
                     !.fault[i] = o.fault,
                     !.alone[i] = Alone(a.scope, a.reports),
                     !.walk[i] = w]

DuoRunning(i) == phase = "duo" /\ duo.walk[i].phase = "run" /\ ~duo.fault[i]

DuoInside(i, kinds) == duo.walk[i].open[Len(duo.walk[i].open)] \in kinds

\* ESLint calls create(context) for a file.
DuoCreate ==
  /\ phase = "duo"
  /\ \E i \in Invocations :
       /\ duo.walk[i].phase = "new"
       /\ LET t == createScopeInfo(duo.cells)
          IN  duo' = [duo EXCEPT !.tracker[i] = t,
                                 !.cells = IF t > Len(@) THEN Append(@, <<>>) ELSE @,
                                 !.walk[i] = DuoWalk("init", <<>>, 0)]
  /\ UNCHANGED <<ruleVars, pairVars>>

\* Program, in one of the two traversals.
DuoProgram ==
  /\ phase = "duo"
  /\ \E i \in Invocations :
       /\ duo.walk[i].phase = "init"
       /\ LET o == onProgram(scopeOf(i))
              a == onProgram(duo.alone[i].scope)
          IN  DuoDone(i, Outcome(o.scope, duo.sink[i], o.fault, 0),
                      Alone(a.scope, duo.alone[i].reports),
                      DuoWalk("run", <<"Program">>, 0))
  /\ UNCHANGED <<ruleVars, pairVars>>

\* ':statement', in one of the two traversals.
DuoStatement ==
  /\ \E i \in Invocations, shape \in DuoShapes, lay \in DuoLayouts :
       /\ DuoRunning(i) /\ duo.walk[i].n < DuoNodes
       /\ DuoInside(i, {"Program", "BlockStatement", "SwitchCase"})
       /\ LET node == DuoNode(i, shape.type, shape.tok)
          IN  DuoDone(i, verifyNode(scopeOf(i), duo.sink[i], configs, lay, node),
                      verifyNode(duo.alone[i].scope, duo.alone[i].reports, configs, lay, node),
                      [duo.walk[i] EXCEPT !.n = @ + 1])
  /\ UNCHANGED <<ruleVars, pairVars>>

\* ':statement' and then BlockStatement / SwitchStatement, in one of the two
\* traversals.
DuoEnterContainer ==
  /\ \E i \in Invocations, kind \in {"BlockStatement", "SwitchStatement"},
        lay \in DuoLayouts :
       /\ DuoRunning(i) /\ duo.walk[i].n < DuoNodes
       /\ Len(duo.walk[i].open) < DuoDepth
       /\ DuoInside(i, {"Program", "BlockStatement", "SwitchCase"})
       /\ LET node == DuoNode(i, kind,
                              IF kind = "BlockStatement" THEN Token("Punctuator", "{")
                              ELSE Token("Keyword", "switch"))
          IN  DuoDone(i, onContainer(scopeOf(i), duo.sink[i], configs, lay, node),
                      onContainer(duo.alone[i].scope, duo.alone[i].reports, configs, lay, node),
                      [duo.walk[i] EXCEPT !.n = @ + 1, !.open = Append(@, kind)])
  /\ UNCHANGED <<ruleVars, pairVars>>

\* SwitchCase, in one of the two traversals.
DuoEnterSwitchCase ==
  /\ \E i \in Invocations, lay \in DuoLayouts :
       /\ DuoRunning(i) /\ duo.walk[i].n < DuoNodes
       /\ Len(duo.walk[i].open) < DuoDepth
       /\ DuoInside(i, {"SwitchStatement"})
       /\ LET node == DuoNode(i, "SwitchCase", Token("Keyword", "case"))
          IN  DuoDone(i, onSwitchCase(scopeOf(i), duo.sink[i], configs, lay, node),
                      onSwitchCase(duo.alone[i].scope, duo.alone[i].reports, configs, lay, node),
                      [duo.walk[i] EXCEPT !.n = @ + 1, !.open = Append(@, "SwitchCase")])
  /\ UNCHANGED <<ruleVars, pairVars>>

\* 'BlockStatement:exit' / 'SwitchStatement:exit' / 'SwitchCase:exit', in one
\* of the two traversals.
DuoExitContainer ==
  /\ \E i \in Invocations :
       /\ DuoRunning(i)
       /\ Len(duo.walk[i].open) > 1
       /\ LET o == onExit(scopeOf(i))
              a == onExit(duo.alone[i].scope)
          IN  DuoDone(i, Outcome(o.scope, duo.sink[i], o.fault, 0),
                      Alone(a.scope, duo.alone[i].reports),
                      [duo.walk[i] EXCEPT !.open = SubSeq(@, 1, Len(@) - 1)])
  /\ UNCHANGED <<ruleVars, pairVars>>

\* 'Program:exit', in one of the two traversals.
DuoProgramExit ==
  /\ \E i \in Invocations :
       /\ DuoRunning(i)
       /\ Len(duo.walk[i].open) = 1
       /\ DuoDone(i, Outcome(onProgramExit(scopeOf(i)), duo.sink[i], FALSE, 0),
                  Alone(onProgramExit(duo.alone[i].scope), duo.alone[i].reports),
                  DuoWalk("done", <<>>, duo.walk[i].n))
  /\ UNCHANGED <<ruleVars, pairVars>>

\* ---------------------------------------------------------- specifications

\* One traversal of one file by one rule.
Init ==
  /\ configs \in SpecTables
  /\ scope = <<>>
  /\ reports = <<>>
  /\ fault = FALSE
  /\ phase = "init"
  /\ walk = <<>>
  /\ nextId = 1
  /\ due = <<>>
  /\ last = NoVisit
  /\ pc = "idle"
  /\ pair = NoPair
  /\ applied = "Any"
  /\ out = <<>>
  /\ text = Layout(<<>>, 0)
  /\ again = <<>>
  /\ duo = NoDuo

Next ==
  \/ Program
  \/ Statement
  \/ EnterContainer
  \/ EnterSwitchCase
  \/ ExitContainer
  \/ ProgramExit

Spec == Init /\ [][Next]_vars

\* One call of testPadding on a pair of adjacent statements: over every rule
\* table and pair of statements with and without a blank line between them,
\* under the tables of 'padding-around-all' and 'padding-around-expect-groups'
\* over every pair of statements the testers tell apart, and, under a rule
\* that asks for padding between any two statements, over every layout of
\* comments and line breaks between the two.
PairInit ==
  /\ scope = <<Scope(null)>>
  /\ reports = <<>>
  /\ fault = FALSE
  /\ phase = "pair"
  /\ walk = <<>>
  /\ nextId = 1
  /\ due = <<>>
  /\ last = NoVisit
  /\ pc = "call"
  /\ applied = "Any"
  /\ out = <<>>
  /\ text = Layout(<<>>, 0)
  /\ again = <<>>
  /\ duo = NoDuo
  /\ \/ /\ configs \in PairTables
        /\ \E p \in PairShapes, n \in PairShapes, lay \in {Layout(<<>>, 1), Layout(<<>>, 2)} :
             pair = Pair(AsNode(1, p), AsNode(2, n), lay)
     \/ /\ configs \in {allConfigs, expectConfigs}
        /\ \E p \in JestShapes, n \in JestShapes, lay \in {Layout(<<>>, 1), Layout(<<>>, 2)} :
             pair = Pair(AsNode(1, p), AsNode(2, n), lay)
     \/ /\ configs = <<Rule("Always", One("Any"), One("Any"))>>
        /\ \E lay \in Layouts(MaxComments, MaxGap, MaxHeight) :
             pair = Pair(Node(1, "ExpressionStatement", 0, "", Token("Identifier", "foo"),
                              "Program"),
                         Node(2, "ExpressionStatement", 0, "", Token("Identifier", "bar"),
                              "Program"),
                         lay)

PairNext ==
  \/ PairCheck
  \/ PairFix
  \/ PairRecheck

PairSpec == PairInit /\ [][PairNext]_vars

\* The traversals of two files by the rule 'padding-around-all', their events
\* interleaved in every order.
DuoInit ==
  /\ configs = allConfigs
  /\ scope = <<>>
  /\ reports = <<>>
  /\ fault = FALSE
  /\ phase = "duo"
  /\ walk = <<>>
  /\ nextId = 1
  /\ due = <<>>
  /\ last = NoVisit
  /\ pc = "idle"
  /\ pair = NoPair
  /\ applied = "Any"
  /\ out = <<>>
  /\ text = Layout(<<>>, 0)
  /\ again = <<>>
  /\ duo = NoDuo

DuoNext ==
  \/ DuoCreate
  \/ DuoProgram
  \/ DuoStatement
  \/ DuoEnterContainer
  \/ DuoEnterSwitchCase
  \/ DuoExitContainer
  \/ DuoProgramExit

DuoSpec == DuoInit /\ [][DuoNext]_vars

\* ------------------------------------------------------------------ claims

Reported(id) == \E i \in 1..Len(reports) : reports[i].node = id

\* C1: over a traversal, the reports made are exactly the pairs of adjacent
\* statements of one statement list that the table resolves to Always and that
\* have no blank line between them: one report per such pair, in document
\* order, anchored at the second statement with the message 'Expected blank
\* line before this statement.', and no report for any other pair.
C1_OneReportPerUnpaddedAlwaysPair ==
  [i \in 1..Len(reports) |-> <<reports[i].node, reports[i].prev, reports[i].message>>] = due

\* A traversal that has reported an unpadded Always pair and has then met an
\* Always pair with a blank line between, which it did not report.
C1_Witness ==
  /\ Len(reports) >= 1
  /\ last.direct /\ last.sib # 0 /\ last.always /\ last.blank
  /\ ~Reported(last.node)

\* C2: when some rule of the table matches the pair on both sides, testPadding
\* applies the padding type of the matching rule with the highest index,
\* whatever the matching rules before it say.
C2_LastMatchWins ==
  (pc # "call" /\ Matching(configs, pair.prev, pair.next) # {}) =>
    /\ applied = configs[Highest(Matching(configs, pair.prev, pair.next))].paddingType
    /\ (applied = "Any" => out = <<>>)
    /\ (applied = "Always" /\ ~Blank(pair.lay) => Len(out) = 1)

\* The table [{Always, Any->X}, {Any, Any->X}] on a pair that ends in X with no
\* blank line between: resolved to Any, not reported.
C2_Witness ==
  /\ pc = "returned"
  /\ configs = <<Rule("Always", One("Any"), One("DescribeToken")),
                 Rule("Any", One("Any"), One("DescribeToken"))>>
  /\ Belongs(pair.next, "DescribeToken")
  /\ ~Blank(pair.lay)
  /\ applied = "Any"
  /\ out = <<>>

\* C3: when the fix of a report is applied to the source and the pair is
\* checked again on the result, no violation is reported for the pair.
C3_FixIdempotent == pc = "rechecked" => again = <<>>

\* A reported pair with a trailing comment on the previous statement's line
\* and a comment on a line of its own before the next statement, fixed and
\* checked again.
C3_Witness ==
  /\ pc = "rechecked"
  /\ Len(out) = 1
  /\ Len(pair.lay.items) = 2
  /\ pair.lay.items[1].gap = 0
  /\ pair.lay.items[2].gap = 1
  /\ pair.lay.tail = 1

\* The last comment that starts on the line of prevNode's actual last token
\* (token 0 when there is none).
LastOnLineOfPrev(lay) ==
  Highest({0} \cup {i \in 1..Len(lay.items) : startLine(lay, i) = endLine(lay, 0)})

\* The end of the chain of trailing comments: the last comment such that it
\* and every comment before it starts on the line on which the token or
\* comment before it ends (token 0 when the first comment does not).
EndOfTrailing(lay) ==
  Highest({k \in 0..Len(lay.items) :
             \A i \in 1..k : startLine(lay, i) = endLine(lay, i - 1)})

\* What C4 says of a fix that inserts after token `ref`: "\n\n" when the token
\* that follows is on ref's line and "\n" otherwise, which leaves exactly one
\* blank line between the two.
InsertsOneBlankLine(ref) ==
  /\ out[1].fix.after = ref
  /\ out[1].fix.text = IF endLine(pair.lay, ref) = startLine(pair.lay, ref + 1)
                       THEN "\n\n" ELSE "\n"
  /\ startLine(text, ref + 1) - endLine(text, ref) = 2

\* C4 as stated: the fix inserts after the last comment that shares a line
\* with prevNode's actual last token (after that token when there is none),
\* "\n\n" or "\n", leaving exactly one blank line before the anchor.
C4_AfterLastCommentOnPrevLine ==
  pc \in {"fixed", "rechecked"} => InsertsOneBlankLine(LastOnLineOfPrev(pair.lay))

\* C4, amended: the fix inserts after the last comment of the chain of
\* trailing comments, each of which starts on the line on which the token or
\* comment before it ends (after prevNode's actual last token when the chain
\* is empty), never before a comment on the line of that last token; it
\* inserts "\n\n" when the anchor is on the line of that reference token and
\* "\n" otherwise, and the result has exactly one blank line between the two.
C4_AfterTrailingComments ==
  pc \in {"fixed", "rechecked"} =>
    /\ InsertsOneBlankLine(EndOfTrailing(pair.lay))
    /\ out[1].fix.after >= LastOnLineOfPrev(pair.lay)

\* `foo(); // note` followed by the next statement on the next line: the fix
\* inserts one line break after the comment.
C4_Witness ==
  /\ pc = "fixed"
  /\ pair.lay = Layout(<<Item("Line", 0, 0)>>, 1)
  /\ out[1].fix = [after |-> 1, text |-> "\n"]
  /\ text = Layout(<<Item("Line", 0, 0)>>, 2)

\* C5: the first statement delivered in a statement list after a nested block,
\* switch or case body was left is compared against the statement of that list
\* that preceded the nested body, never against a statement inside it.
C5_ScopeIsolation ==
  (last.direct /\ last.left.on) =>
    /\ last.checked = last.left.saved
    /\ last.checked \notin last.left.lo..last.left.hi

\* A statement delivered after a block that holds statements, compared against
\* the statement before the block's body.
C5_Witness ==
  /\ last.direct /\ last.left.on
  /\ last.left.hi >= last.left.lo
  /\ last.checked = last.left.saved
  /\ last.kind # "SwitchStatement"

\* C6: the scope chain is as deep as the constructs that are open, and it is
\* empty again once the program root was left.
C6_EnterExitPairing ==
  /\ phase = "run" => Len(scope) = Len(walk)
  /\ phase = "done" => scope = <<>>

\* C7 as stated: a statement of a case body that the table resolves to Always
\* against what precedes it, with no blank line before it, is reported, also
\* when it is the first statement of its case body.
C7_CaseBodyAlwaysReported ==
  (last.direct /\ last.kind = "SwitchCase" /\ last.always /\ ~last.blank) =>
    Reported(last.node)

\* C7, amended: a statement of a case body is reported exactly when it is not
\* the first statement of its case body, the table resolves to Always for it
\* and the statement before it and no blank line lies between them; the first
\* statement of a case body is never reported.
C7_CaseBodyReportedAfterFirst ==
  (last.direct /\ last.kind = "SwitchCase") =>
    (Reported(last.node) <=> (last.sib # 0 /\ last.always /\ ~last.blank))

\* The second statement of a case body, reported.
C7_Witness ==
  /\ last.direct /\ last.kind = "SwitchCase"
  /\ last.sib # 0
  /\ Reported(last.node)

\* The label named describe around a statement that is no describe call, and
\* arrays with the wildcard, with one member and with no member.
ClassifierTypes ==
  {One(t) : t \in StatementType}
    \cup {Many(<<>>), Many(<<"ExpectToken">>), Many(<<"DescribeToken", "ExpectToken">>),
          Many(<<"TestToken", "Any">>), DescribeTokens}

\* C8: nodeMatchesType is true for the wildcard; for a named category it is
\* true iff the statement inside the node's labels is an ExpressionStatement
\* whose first token is an Identifier with the category's name; for an array
\* it is true iff some member category matches.
C8_Classifier ==
  pc = "returned" =>
    \A node \in {pair.prev, pair.next} : \A st \in ClassifierTypes :
      /\ nodeMatchesType(node, st) <=> BelongsTo(node, st)
      /\ st.isArray =>
           (nodeMatchesType(node, st) <=>
              \E i \in 1..Len(st.types) : nodeMatchesType(node, One(st.types[i])))

\* A describe call under a label matches the describe array, and a statement
\* under a label named describe that is no describe call does not.
C8_Witness ==
  /\ pc = "returned"
  /\ pair.next.labels > 0
  /\ nodeMatchesType(pair.next, DescribeTokens)
  /\ pair.prev.labels > 0 /\ pair.prev.lbl = "describe"
  /\ ~nodeMatchesType(pair.prev, One("DescribeToken"))

\* C9: when no rule of the table matches the pair on both sides, testPadding
\* applies Any and reports nothing, with or without a blank line between.
C9_DefaultAny ==
  (pc # "call" /\ Matching(configs, pair.prev, pair.next) = {}) =>
    /\ applied = "Any"
    /\ out = <<>>

\* A table with rules none of which matches a pair with no blank line between.
C9_Witness ==
  /\ pc = "returned"
  /\ Len(configs) = MaxRules
  /\ Matching(configs, pair.prev, pair.next) = {}
  /\ ~Blank(pair.lay)
  /\ out = <<>>

\* C10 as stated: a statement that fails the valid-parent check is not
\* checked, and it becomes the scope's previous statement.
C10_InvalidParentOverwrites ==
  (last.node # 0 /\ ~last.direct) =>
    /\ last.checked = 0
    /\ last.after = last.node

\* C10, amended: a statement that fails the valid-parent check is not checked
\* and leaves the scope's previous statement as it was, so the next valid
\* statement of the scope is compared against the last valid one.
C10_InvalidParentSkipped ==
  /\ (last.node # 0 /\ ~last.direct) =>
       /\ last.checked = 0
       /\ last.after = last.before
  /\ (last.direct /\ last.sib # 0) => last.checked = last.sib

\* A statement delivered after a statement nested in its predecessor was
\* skipped, compared against that predecessor.
C10_Witness ==
  /\ last.direct
  /\ last.skipped # 0
  /\ last.left.on = FALSE
  /\ last.checked = last.sib
  /\ last.checked # last.skipped

\* C11: a scope that was entered and has had no statement delivered directly
\* inside it yet has an empty prevNode above the scopes that were there
\* before, and the first statement delivered directly inside a program body,
\* block, switch body or case body is not handed to testPadding and is not
\* reported, whatever the table and whatever precedes it.
C11_FirstStatementUnchecked ==
  /\ phase = "run" =>
       /\ Len(scope) = Len(walk)
       /\ \A i \in 1..Len(walk) : walk[i].last = null => scope[i].prevNode = null
  /\ (last.direct /\ last.sib = 0) =>
       /\ last.checked = 0
       /\ ~Reported(last.node)

\* The first statement of a case body, which the table resolves to Always
\* against the case before it, with no blank line before it: not checked, not
\* reported.
C11_Witness ==
  /\ last.direct /\ last.sib = 0
  /\ last.kind = "SwitchCase"
  /\ last.always /\ ~last.blank
  /\ last.checked = 0
  /\ ~Reported(last.node)

\* C12: the innermost scope's prevNode is empty or the statement delivered
\* last directly inside the innermost open construct, and every pair handed
\* to testPadding is a statement delivered directly inside a construct
\* together with the statement delivered directly inside it just before.
C12_Adjacency ==
  /\ (phase = "run" /\ walk # <<>>) =>
       /\ scope # <<>>
       /\ getPrevNode(scope) = top.last
  /\ phase = "done" => getPrevNode(scope) = null
  /\ last.checked # 0 => (last.direct /\ last.checked = last.sib)

\* Inside a nested construct, a statement handed to testPadding with the
\* statement before it, and recorded as the scope's prevNode.
C12_Witness ==
  /\ phase = "run"
  /\ Len(walk) >= 2
  /\ last.checked # 0
  /\ top.last # null
  /\ top.last.id = last.node
  /\ getPrevNode(scope) = top.last

\* C13: the table of 'padding-around-all' is the seven tables of
\* paddingConfigs one after the other (afterAll, afterEach, beforeAll,
\* beforeEach, describe, expect, test), and testPadding applies Always under it
\* exactly to the pairs that at least one of the seven tables resolves to
\* Always; two adjacent expect statements stay Any.
C13_AggregateEquivalence ==
  /\ allConfigs = afterAllConfigs \o afterEachConfigs \o beforeAllConfigs
                    \o beforeEachConfigs \o describeConfigs \o expectConfigs
                    \o testConfigs
  /\ (pc # "call" /\ configs = allConfigs) =>
       /\ applied = "Always" <=>
            \E k \in 1..Len(paddingConfigs) :
              Resolved(paddingConfigs[k], pair.prev, pair.next) = "Always"
       /\ (Belongs(pair.prev, "ExpectToken") /\ Belongs(pair.next, "ExpectToken")) =>
            (applied = "Any" /\ out = <<>>)

\* Under 'padding-around-all', an expect statement followed by an `it` call
\* with no blank line between: Always by the expect table and by the test
\* table, reported.
C13_Witness ==
  /\ pc = "returned"
  /\ configs = allConfigs
  /\ Belongs(pair.prev, "ExpectToken")
  /\ Belongs(pair.next, "ItToken")
  /\ ~Blank(pair.lay)
  /\ applied = "Always"
  /\ Len(out) = 1

\* C14: under the table of 'padding-around-expect-groups', testPadding applies
\* Any to two adjacent expect statements and reports nothing, and applies
\* Always to a pair in which exactly one of the two is an expect statement.
C14_ExpectGroups ==
  (pc # "call" /\ configs = expectConfigs) =>
    LET p == Belongs(pair.prev, "ExpectToken")
        n == Belongs(pair.next, "ExpectToken")
    IN  /\ (p /\ n) => (applied = "Any" /\ out = <<>>)
        /\ (p # n) => (applied = "Always" /\ (~Blank(pair.lay) => Len(out) = 1))

\* Two adjacent expect statements with no blank line between, the second
\* under a label: Any, not reported.
C14_Witness ==
  /\ pc = "returned"
  /\ configs = expectConfigs
  /\ Belongs(pair.prev, "ExpectToken")
  /\ Belongs(pair.next, "ExpectToken")
  /\ pair.next.labels > 0
  /\ ~Blank(pair.lay)
  /\ applied = "Any"
  /\ out = <<>>

\* An upper bound of the number of events the walker has yet to deliver: two
\* for every node it may still deliver (entering and leaving it), one for
\* every open construct, and the Program node's own two before it is entered.
Remaining ==
  2 * (MaxNodes + 1 - nextId) + Len(walk) + (IF phase = "init" THEN 2 ELSE 0)

\* C15: in a depth-first traversal of a finite tree no handler throws: the
\* scope chain is never null when a statement is verified or a scope is left
\* (it is as deep as the walker's open constructs). The traversal completes:
\* until the Program node is left the walker's next event can be delivered,
\* and every event leaves fewer events to deliver.
C15_NoFault ==
  /\ [](/\ fault = FALSE
        /\ phase = "run" => (scope # <<>> /\ Len(scope) = Len(walk))
        /\ phase = "done" => scope # <<>>
        /\ phase \in {"init", "run"} => ENABLED (Program \/ ExitContainer \/ ProgramExit))
  /\ [][Remaining' < Remaining]_vars

\* A traversal that went MaxDepth constructs deep, with a switch case among
\* them, delivered every node it could, reported, and has left the Program
\* node.
C15_Witness ==
  /\ phase = "done"
  /\ fault = FALSE
  /\ nextId = MaxNodes + 1
  /\ last.kind = "SwitchCase"
  /\ reports # <<>>

\* C16: the two calls of create() hold different trackers, and however the
\* events of the two traversals are interleaved, the scope chain behind each
\* invocation's tracker and the reports it has made are those of the
\* traversal of its file alone, and none of its handlers threw.
C16_InvocationIsolation ==
  phase = "duo" =>
    /\ (\A i \in Invocations : duo.walk[i].phase # "new") =>
         duo.tracker[1] # duo.tracker[2]
    /\ \A i \in Invocations :
         duo.walk[i].phase \in {"run", "done"} =>
           /\ scopeOf(i) = duo.alone[i].scope
           /\ duo.sink[i] = duo.alone[i].reports
           /\ ~duo.fault[i]

\* Both traversals are under way, one of them inside a nested construct and
\* the other at the top level of its program, and each has reported a pair of
\* its own file.
C16_Witness ==
  /\ phase = "duo"
  /\ duo.walk[1].phase = "run" /\ duo.walk[2].phase = "run"
  /\ Len(duo.walk[1].open) > 1 /\ Len(duo.walk[2].open) = 1
  /\ Len(duo.sink[1]) = 1 /\ Len(duo.sink[2]) = 1
  /\ duo.sink[1][1].node # duo.sink[2][1].node
  /\ scopeOf(1) # scopeOf(2)

====
